---- MODULE Spec2Model ----
(***************************************************************************)
(* Batch orchestration of the PDF extractor (src/extractor/main.py):       *)
(* process_with_retry, circuit_breaker_check, detect_assembly and          *)
(* extract_batch, as a state machine over the suspension points of the     *)
(* asyncio coroutines.                                                     *)
(*                                                                         *)
(* A Python str is a sequence of one-character strings, so that "in",      *)
(* lower(), replace() and rstrip() are computed character by character.    *)
(***************************************************************************)
EXTENDS Integers, Sequences, FiniteSets, TLC

VARIABLES
    run,                    \* run[p]: the locals and position of coroutine p
    consecutive_failures,   \* main.py:203, the module-level circuit counter
    failure_lock,           \* main.py:206, _failure_lock: owner (0 = free) and FIFO waiters
    batches,                \* number of extract_batch / process_with_retry calls made so far
    trailing_failures,      \* history: file jobs that raised since the last job that returned or the last cooldown
    streak,                 \* history: file jobs that raised since the last job that returned
    blocked_by_cooldown,    \* history: the coroutines waiting in circuit_breaker_check since before the end of a cooldown
    merge,                  \* the merge of main.py:360-378 on its own: its inputs and its result
    detection,              \* detect_assembly on its own: its input and its result
    retry_log               \* history, kept when switched on: the backoff sleeps of each file job of the batch; also the switch of the history field carried

vars == <<run, consecutive_failures, failure_lock, batches, trailing_failures, streak,
          blocked_by_cooldown, merge, detection, retry_log>>

-----------------------------------------------------------------------------
(* Bounds of the model *)

\* items in a list given to detect_assembly on its own
MaxItems == 3
\* characters in a BOM reference or part number compared by detect_assembly on its own
MaxIdLen == 3

\* calls of extract_batch (or process_with_retry) one process makes
MaxBatches == 2
\* largest max_retries argument tried when process_with_retry is called directly
MaxRetriesArg == 8
\* failed attempts of one job when the backend recovers
MaxJobFailures == 2

-----------------------------------------------------------------------------
(* Python values *)

\* Python's None where a str is expected
PyNone == <<"<NoneType>">>
\* Python's None where a list of str is expected
PyNoneList == << <<"<NoneType>">> >>

Upper == <<"A","B","C","D","E","F","G","H","I","J","K","L","M","N","O","P","Q","R","S","T","U","V","W","X","Y","Z">>
LowerCase == <<"a","b","c","d","e","f","g","h","i","j","k","l","m","n","o","p","q","r","s","t","u","v","w","x","y","z">>
Digits == <<"0","1","2","3","4","5","6","7","8","9">>
\* the characters used, in code point order
Alphabet == <<" ", ".">> \o Digits \o Upper \o <<"_">> \o LowerCase

Ord(c) == CHOOSE k \in 1..Len(Alphabet) : Alphabet[k] = c

IsDigit(c) == \E k \in 1..Len(Digits) : Digits[k] = c

\* str.lower() on one character
LowerChar(c) ==
    IF \E k \in 1..Len(Upper) : Upper[k] = c
    THEN LowerCase[CHOOSE k \in 1..Len(Upper) : Upper[k] = c]
    ELSE c

\* str.lower()
Lower(s) == [k \in 1..Len(s) |-> LowerChar(s[k])]

\* needle in hay (substring test); the empty string is in every string
Contains(hay, needle) ==
    \E k \in 0..(Len(hay) - Len(needle)) :
        \A j \in 1..Len(needle) : hay[k + j] = needle[j]

StartsWithAt(s, k, old) ==
    /\ k + Len(old) - 1 <= Len(s)
    /\ \A j \in 1..Len(old) : s[k + j - 1] = old[j]

RECURSIVE ReplaceFrom(_, _, _)
\* s[k..] with every non-overlapping occurrence of old (non-empty) removed, left to right
ReplaceFrom(s, k, old) ==
    IF k > Len(s) THEN <<>>
    ELSE IF StartsWithAt(s, k, old) THEN ReplaceFrom(s, k + Len(old), old)
    ELSE <<s[k]>> \o ReplaceFrom(s, k + 1, old)

\* s.replace(old, "")
Remove(s, old) == ReplaceFrom(s, 1, old)

RECURSIVE RStripDigits(_)
\* s.rstrip("0123456789")
RStripDigits(s) ==
    IF Len(s) > 0 /\ IsDigit(s[Len(s)]) THEN RStripDigits(SubSeq(s, 1, Len(s) - 1)) ELSE s

\* lexicographic order of two strings by code point (str.__lt__)
RECURSIVE StrLess(_, _)
StrLess(a, b) ==
    IF Len(b) = 0 THEN FALSE
    ELSE IF Len(a) = 0 THEN TRUE
    ELSE IF a[1] # b[1] THEN Ord(a[1]) < Ord(b[1])
    ELSE StrLess(Tail(a), Tail(b))

\* truthiness of an Optional[str] and of an Optional[list]
TruthyStr(s) == s # PyNone /\ s # <<>>
TruthyList(l) == l # PyNoneList /\ l # <<>>

-----------------------------------------------------------------------------
(* Text constants of the program *)

s503 == <<"5","0","3">>
s429 == <<"4","2","9">>
sOverloaded == <<"o","v","e","r","l","o","a","d","e","d">>
sRev == <<"_","R","e","v">>
sNoneLower == <<"n","o","n","e">>
sDotPdf == <<".","p","d","f">>
sMaxRetriesExceeded == <<"M","a","x"," ","r","e","t","r","i","e","s"," ","e","x","c","e","e","d","e","d">>

\* main.py:47, the default of max_retries
DefaultMaxRetries == 7
\* main.py:204
MAX_CONSECUTIVE_FAILURES == 5
\* main.py:205, seconds
CIRCUIT_BREAKER_DELAY == 5 * 60
\* main.py:60, seconds
delays == <<2, 4, 8, 16, 30, 60, 60>>
\* main.py:324, seconds
PacingDelay == 1

-----------------------------------------------------------------------------
(* The environment: folders on disk and what the extraction backend reads   *)
(* from each drawing.  The backend is called with temperature 0, so each    *)
(* drawing has one answer per mode; what varies per call is whether the     *)
(* call succeeds or raises.                                                 *)

fA == <<"A",".","p","d","f">>
fB == <<"B",".","P","D","F">>
fC == <<"C",".","p","d","f">>
fTxt == <<"n",".","t","x","t">>
fP1 == <<"p","1",".","p","d","f">>
fP2 == <<"p","2",".","p","d","f">>
fP3 == <<"p","3",".","p","d","f">>
fP4 == <<"p","4",".","p","d","f">>
fP5 == <<"p","5",".","p","d","f">>
fP6 == <<"p","6",".","p","d","f">>

vNone == <<"N","o","n","e">>
vVerzinkt == <<"V","e","r","z","i","n","k","t">>
vPoedercoaten == <<"P","o","e","d","e","r","c","o","a","t","e","n">>
vSteel == <<"S","2","3","5">>
vNoneLowerCase == <<"n","o","n","e">>
vNoneUpperCase == <<"N","O","N","E">>
vBlank == <<" ">>

\* values an Optional[str] surface treatment takes (types.py:57)
Surfaces ==
    {PyNone, <<>>, vNone, vNoneLowerCase, vNoneUpperCase, vBlank, vVerzinkt, vPoedercoaten}

\* values an Optional[List[str]] of BOM part numbers takes (types.py:50-66)
BomLists == {PyNoneList, <<>>, << <<"B">>, <<"C">> >>, << <<"D">> >>}

Folders == {"missing", "nopdf", "single", "order", "kit", "six"}

FolderExists(folder) == folder # "missing"

\* the directory entries in the order iterdir() yields them
FolderEntries(folder) ==
    CASE folder = "nopdf" -> <<fTxt>>
      [] folder = "single" -> <<fA>>
      [] folder = "order" -> <<fC, fTxt, fA, fB>>
      [] folder = "kit" -> <<fB, fC, fA>>
      [] folder = "six" -> <<fP4, fP1, fP6, fP2, fP5, fP3>>
      [] OTHER -> <<>>

\* one item as the backend reads it from a drawing (the part number is assigned later)
RawItem(holes, tolerated_lengths, material, notes, surface_treatment, bom_part_numbers) ==
    [holes |-> holes, tolerated_lengths |-> tolerated_lengths, material |-> material,
     notes |-> notes, surface_treatment |-> surface_treatment,
     bom_part_numbers |-> bom_part_numbers]

\* the items the backend reads from drawing `name` of `folder`, in full or in restricted (assembly) mode
Drawing(folder, name, is_assembly) ==
    CASE folder = "single" ->
            IF is_assembly THEN <<RawItem(<<>>, <<>>, vSteel, PyNone, vVerzinkt, PyNoneList)>>
            ELSE <<RawItem(<<1>>, <<1>>, vSteel, PyNone, vNone, PyNoneList)>>
      [] folder = "order" /\ name = fA ->
            IF is_assembly
            THEN <<RawItem(<<>>, <<>>, PyNone, PyNone, vVerzinkt, << <<"B">>, <<"C">> >>)>>
            ELSE <<RawItem(<<1, 2>>, <<1>>, vSteel, <<"x">>, vNone, << <<"B","_","R","e","v","2">> >>)>>
      [] folder = "order" /\ name = fB ->
            <<RawItem(<<1>>, <<>>, vSteel, PyNone, vPoedercoaten, PyNoneList)>>
      [] folder = "order" /\ name = fC ->
            <<RawItem(<<>>, <<1>>, PyNone, PyNone, <<>>, <<>>)>>
      [] folder = "kit" /\ name = fC ->
            IF is_assembly
            THEN <<RawItem(<<>>, <<>>, PyNone, PyNone, vVerzinkt, <<>>)>>
            ELSE <<RawItem(<<1>>, <<1, 2>>, vSteel, PyNone, vPoedercoaten, << <<"A">>, <<"B">> >>)>>
      [] folder = "kit" /\ name = fA ->
            <<RawItem(<<1>>, <<>>, vSteel, PyNone, PyNone, PyNoneList)>>
      [] folder = "kit" /\ name = fB ->
            <<RawItem(<<>>, <<>>, vSteel, PyNone, vNone, <<>>)>>
      [] folder = "six" /\ name \in {fP2, fP5} -> <<>>
      [] folder = "six" /\ name = fP6 ->
            IF is_assembly THEN <<>>
            ELSE <<RawItem(<<1>>, <<>>, vSteel, PyNone, vVerzinkt, PyNoneList)>>
      [] folder = "six" /\ name \notin {fP2, fP5, fP6} ->
            <<RawItem(<<1>>, <<>>, vSteel, PyNone, vVerzinkt, PyNoneList)>>
      [] OTHER -> <<>>

\* messages of the errors the backend call raises
mUnavailable == <<"E","5","0","3">>
mRateLimit == <<"4","2","9"," ","q","u","o","t","a">>
mOverloaded == <<"m","o","d","e","l"," ","o","v","e","r","l","o","a","d","e","d">>
mBadRequest == <<"4","0","0">>
mCapitalOverloaded == <<"O","v","e","r","l","o","a","d","e","d">>

ErrorMessages == {mUnavailable, mRateLimit, mOverloaded, mBadRequest, mCapitalOverloaded}

\* random.random() in milliseconds: 0 <= jitter < 1000
JitterMs == {0, 999}

\* customers detect_customer_from_pdf_vision returns: what it reads, or "base" after an API error
DetectedCustomers == {"rademaker", "base"}

-----------------------------------------------------------------------------
(* pathlib *)

\* index of the last "." of name that starts a suffix, 0 if none
SuffixStart(name) ==
    LET dots == {k \in 2..(Len(name) - 1) : name[k] = "."}
    IN IF dots = {} THEN 0 ELSE CHOOSE k \in dots : \A j \in dots : j <= k

\* Path.suffix
Suffix(name) == IF SuffixStart(name) = 0 THEN <<>> ELSE SubSeq(name, SuffixStart(name), Len(name))

\* Path.stem
Stem(name) == IF SuffixStart(name) = 0 THEN name ELSE SubSeq(name, 1, SuffixStart(name) - 1)

\* sorted(seq, key=lambda x: x.name): insertion of each entry after the entries not greater than it
RECURSIVE SortedInsert(_, _)
SortedInsert(sorted, name) ==
    IF sorted = <<>> THEN <<name>>
    ELSE IF StrLess(name, sorted[1]) THEN <<name>> \o sorted
    ELSE <<sorted[1]>> \o SortedInsert(Tail(sorted), name)

RECURSIVE SortByName(_)
SortByName(seq) ==
    IF seq = <<>> THEN <<>>
    ELSE SortedInsert(SortByName(SubSeq(seq, 1, Len(seq) - 1)), seq[Len(seq)])

\* a variant of IsPdf that takes every entry of the folder
IsPdfAny(name) == TRUE

\* main.py:250
IsPdf(name) == Lower(Suffix(name)) = sDotPdf

\* a variant of PdfFiles that keeps the order of the directory listing
PdfFilesUnsorted(folder) == SelectSeq(FolderEntries(folder), IsPdf)

\* main.py:249-252
PdfFiles(folder) == SortByName(SelectSeq(FolderEntries(folder), IsPdf))

-----------------------------------------------------------------------------
(* The collaborators of extract_batch *)

sUnknownPart == <<"u","n","k","n","o","w","n","_","p","a","r","t","_","1">>

\* types.py:50-63, an OrderItem
Item(part_number, raw) ==
    [part_number |-> part_number, holes |-> raw.holes,
     tolerated_lengths |-> raw.tolerated_lengths, material |-> raw.material,
     notes |-> raw.notes, surface_treatment |-> raw.surface_treatment,
     bom_part_numbers |-> raw.bom_part_numbers]

\* gemini_service.py:303-327: the items of a successful extraction, each given the part number
\* options.pdf_filename
ExtractAnswer(folder, name, pdf_filename, is_assembly) ==
    LET raw == Drawing(folder, name, is_assembly)
        part_number == IF TruthyStr(pdf_filename) THEN pdf_filename ELSE sUnknownPart
    IN [k \in 1..Len(raw) |-> Item(part_number, raw[k])]

\* xml_writer.py:14-113: the children of one <Item> element the merge can affect
write_item_xml(item) ==
    (IF TruthyStr(item.part_number)
     THEN <<[tag |-> "PartNumber", text |-> item.part_number]>> ELSE <<>>)
    \o (IF TruthyStr(item.material)
        THEN <<[tag |-> "Material", text |-> item.material]>> ELSE <<>>)
    \o (IF TruthyStr(item.surface_treatment)
        THEN <<[tag |-> "SurfaceTreatment", text |-> item.surface_treatment]>> ELSE <<>>)

\* xml_writer.py:116-145: the <Item> elements of the document, in order
build_simple_order_xml(items) == [k \in 1..Len(items) |-> write_item_xml(items[k])]

-----------------------------------------------------------------------------
(* process_with_retry, main.py:44-86 *)

\* a variant of IsRetryable that ignores case
IsRetryableAnyCase(error_msg) ==
    \/ Contains(Lower(error_msg), s503)
    \/ Contains(Lower(error_msg), s429)
    \/ Contains(Lower(error_msg), sOverloaded)

\* a variant of IsRetryable that does not retry rate-limit errors
IsRetryableUnavailableOnly(error_msg) ==
    Contains(error_msg, s503) \/ Contains(error_msg, sOverloaded)

\* main.py:70
IsRetryable(error_msg) ==
    \/ Contains(error_msg, s503)
    \/ Contains(error_msg, s429)
    \/ Contains(error_msg, sOverloaded)

\* a variant of IsLastAttempt that gives up one attempt early
IsLastAttemptEarly(attempt, max_retries) == attempt + 1 >= max_retries

\* main.py:71
IsLastAttempt(attempt, max_retries) == attempt = max_retries

\* a variant of BaseDelay that doubles the delay at every attempt
BaseDelayDoubling(attempt) == IF attempt < 5 THEN 2 ^ (attempt + 1) ELSE 60

\* main.py:76, seconds
BaseDelay(attempt) == IF attempt < Len(delays) THEN delays[attempt + 1] ELSE 60

\* a variant of Propagate that wraps the error in the generic one
PropagateGeneric(error_msg) == sMaxRetriesExceeded

\* main.py:74, the bare raise: the caught exception itself
Propagate(error_msg) == error_msg

-----------------------------------------------------------------------------
(* detect_assembly, main.py:163-199 *)

\* a variant of Trim that keeps the trailing digits
TrimRevOnly(x) == Remove(x, sRev)

\* main.py:189-190: x.replace("_Rev", "").rstrip("0123456789")
Trim(x) == RStripDigits(Remove(x, sRev))

\* a variant of BomMatches that looks for the trimmed reference only
BomMatchesOneWay(bom_part, item, items) ==
    \E k \in 1..Len(items) :
        LET other == items[k]
        IN /\ TruthyStr(other.part_number)
           /\ other.part_number # item.part_number
           /\ Contains(other.part_number, Trim(bom_part))

\* main.py:185-193
BomMatches(bom_part, item, items) ==
    \E k \in 1..Len(items) :
        LET other == items[k]
        IN /\ TruthyStr(other.part_number)
           /\ other.part_number # item.part_number
           /\ \/ Contains(other.part_number, Trim(bom_part))
              \/ Contains(bom_part, Trim(other.part_number))

\* main.py:178-196: the item has a BOM reference that matches another item
HasMatches(item, items) ==
    /\ TruthyList(item.bom_part_numbers)
    /\ \E j \in 1..Len(item.bom_part_numbers) : BomMatches(item.bom_part_numbers[j], item, items)

\* a variant of detect_assembly that returns the last item with a matching reference
detect_assembly_last(items) ==
    IF Len(items) = 1 THEN items[1].part_number
    ELSE IF \E k \in 1..Len(items) : HasMatches(items[k], items)
    THEN items[CHOOSE k \in 1..Len(items) :
                   /\ HasMatches(items[k], items)
                   /\ \A j \in (k + 1)..Len(items) : ~HasMatches(items[j], items)].part_number
    ELSE IF Len(items) > 0 THEN items[1].part_number
    ELSE PyNone

\* a variant of detect_assembly that returns None when no reference matches
detect_assembly_strict(items) ==
    IF Len(items) = 1 THEN items[1].part_number
    ELSE IF \E k \in 1..Len(items) : HasMatches(items[k], items)
    THEN items[CHOOSE k \in 1..Len(items) :
                   /\ HasMatches(items[k], items)
                   /\ \A j \in 1..(k - 1) : ~HasMatches(items[j], items)].part_number
    ELSE PyNone

detect_assembly(items) ==
    IF Len(items) = 1 THEN items[1].part_number
    ELSE IF \E k \in 1..Len(items) : HasMatches(items[k], items)
    THEN items[CHOOSE k \in 1..Len(items) :
                   /\ HasMatches(items[k], items)
                   /\ \A j \in 1..(k - 1) : ~HasMatches(items[j], items)].part_number
    ELSE IF Len(items) > 0 THEN items[1].part_number
    ELSE PyNone

-----------------------------------------------------------------------------
(* The merge of the re-extracted assembly, main.py:360-378 *)

\* main.py:371
NewSurfaceUsable(new_surface) ==
    TruthyStr(new_surface) /\ Lower(new_surface) \notin {sNoneLower, <<>>}

\* a variant of OldSurfaceMissing that lets any original value be overwritten
OldSurfaceAny(old_surface) == TRUE

\* main.py:372
OldSurfaceMissing(old_surface) ==
    ~TruthyStr(old_surface) \/ Lower(old_surface) \in {sNoneLower, <<>>}

\* a variant of MergeItem that takes the BOM part numbers only together with the surface
MergeItemBomWithSurface(item, bom_data, assembly_part_number) ==
    IF item.part_number = assembly_part_number
       /\ NewSurfaceUsable(bom_data.surface_treatment)
       /\ OldSurfaceMissing(item.surface_treatment)
    THEN [item EXCEPT
            !.surface_treatment = bom_data.surface_treatment,
            !.bom_part_numbers =
                IF TruthyList(bom_data.bom_part_numbers) THEN bom_data.bom_part_numbers ELSE @]
    ELSE item

\* a variant of MergeItem that takes the whole re-extracted item
MergeItemWhole(item, bom_data, assembly_part_number) ==
    IF item.part_number = assembly_part_number THEN bom_data ELSE item

\* a variant of MergeItem that adds the re-extracted references to those of the item
MergeItemAppendBom(item, bom_data, assembly_part_number) ==
    IF item.part_number = assembly_part_number
    THEN [item EXCEPT
            !.surface_treatment =
                IF NewSurfaceUsable(bom_data.surface_treatment) /\ OldSurfaceMissing(@)
                THEN bom_data.surface_treatment ELSE @,
            !.bom_part_numbers =
                IF ~TruthyList(bom_data.bom_part_numbers) THEN @
                ELSE IF TruthyList(@) THEN @ \o bom_data.bom_part_numbers
                ELSE bom_data.bom_part_numbers]
    ELSE item

\* main.py:366-377, one iteration of the loop
MergeItem(item, bom_data, assembly_part_number) ==
    IF item.part_number = assembly_part_number
    THEN [item EXCEPT
            !.surface_treatment =
                IF NewSurfaceUsable(bom_data.surface_treatment) /\ OldSurfaceMissing(@)
                THEN bom_data.surface_treatment ELSE @,
            !.bom_part_numbers =
                IF TruthyList(bom_data.bom_part_numbers) THEN bom_data.bom_part_numbers ELSE @]
    ELSE item

\* main.py:364-378
MergeItems(items, bom_data, assembly_part_number) ==
    [k \in 1..Len(items) |-> MergeItem(items[k], bom_data, assembly_part_number)]

\* main.py:360-378: combined_order.items after a re-extraction that returned `data`
MergeResult(items, data, assembly_part_number) ==
    IF data # <<>> THEN MergeItems(items, data[1], assembly_part_number) ELSE items

-----------------------------------------------------------------------------
(* The state of one coroutine and of the shared circuit breaker *)

\* the locals of a coroutine that has not been called yet
FreshRun(p) ==
    [id |-> p,
     pc |-> "idle",                  \* the await the coroutine is suspended at
     caller |-> "none",              \* who called process_with_retry: "file", "assembly", "direct"
     \* extract_batch
     folder |-> "none", customer_id |-> "none", pdf_files |-> <<>>, i |-> 0,
     all_items |-> <<>>, success_count |-> 0, fail_count |-> 0,
     assembly_part_number |-> PyNone, combined_order |-> <<>>,
     written |-> FALSE, xml |-> <<>>,
     \* process_with_retry
     name |-> <<>>, pdf_filename |-> <<>>, is_assembly |-> FALSE,
     max_retries |-> 0, attempt |-> 0, error |-> PyNone, sleep_ms |-> 0,
     outcome |-> "none", result |-> <<>>,
     \* history of the current process_with_retry call
     calls |-> 0, failed |-> 0, sleeps |-> 0, raised_last |-> PyNone,
     slept |-> <<>>,                 \* the whole seconds of each backoff sleep of the call
     \* history of the current batch
     attempted |-> <<>>, checks |-> 0, seen |-> 0, cooldowns |-> 0, reported |-> PyNone,
     before_merge |-> <<>>, reextract |-> "none", waited |-> 0,
     \* customer_id as passed, the file read at main.py:268, and the calls made so far of
     \* detect_customer_from_pdf_vision and of detect_assembly
     given |-> "none", first_pdf |-> <<>>, customer_runs |-> 0, detections |-> 0,
     \* consecutive_failures as extract_batch found it when called, kept when switched on
     carried |-> 0]

\* the shared state as one value
World == [cf |-> consecutive_failures, lock |-> failure_lock]

St(w, r) == [w |-> w, r |-> r]

\* a variant of LockFree with which acquire() never waits
LockFreeAlways(w) == TRUE

\* asyncio.Lock: acquire() returns at once only when unlocked with nobody waiting
LockFree(w) == w.lock.owner = 0 /\ w.lock.waiters = <<>>
Locked(w, p) == [w EXCEPT !.lock.owner = p]
Enqueued(w, p) == [w EXCEPT !.lock.waiters = Append(@, p)]
\* release(): the first waiter, if any, is the next owner
Released(w) ==
    IF w.lock.waiters = <<>> THEN [w EXCEPT !.lock.owner = 0]
    ELSE [w EXCEPT !.lock.owner = Head(w.lock.waiters), !.lock.waiters = Tail(@)]

-----------------------------------------------------------------------------
(* extract_batch, main.py:224-400, as the blocks between its awaits *)

\* main.py:384-400
WriteOutput(w, r) ==
    St(w, [r EXCEPT !.pc = "done", !.written = TRUE,
                    !.xml = build_simple_order_xml(r.combined_order)])

\* main.py:343-345
AssemblyPdf(pdf_files, assembly_part_number) ==
    SelectSeq(pdf_files, LAMBDA f : Stem(f) = assembly_part_number)

\* a variant of AfterLoop that re-extracts in a batch of one file too
AfterLoopAnySize(w, r) ==
    LET apn == detect_assembly(r.all_items)
        r1 == [r EXCEPT !.combined_order = r.all_items, !.assembly_part_number = apn,
                        !.before_merge = r.all_items, !.detections = @ + 1]
        found == AssemblyPdf(r.pdf_files, apn)
    IN IF TruthyStr(apn) /\ found # <<>>
       THEN St(w, [r1 EXCEPT !.pc = "extract", !.caller = "assembly",
                             !.name = found[1], !.pdf_filename = apn, !.is_assembly = TRUE,
                             !.max_retries = DefaultMaxRetries, !.attempt = 0,
                             !.calls = 1, !.failed = 0, !.sleeps = 0, !.slept = <<>>,
                             !.raised_last = PyNone, !.reextract = "started"])
       ELSE WriteOutput(w, r1)

\* main.py:335-358, after the loop: detection and the start of the re-extraction
AfterLoop(w, r) ==
    LET apn == detect_assembly(r.all_items)
        r1 == [r EXCEPT !.combined_order = r.all_items, !.assembly_part_number = apn,
                        !.before_merge = r.all_items, !.detections = @ + 1]
        found == AssemblyPdf(r.pdf_files, apn)
    IN IF TruthyStr(apn) /\ Len(r.pdf_files) > 1 /\ found # <<>>
       THEN St(w, [r1 EXCEPT !.pc = "extract", !.caller = "assembly",
                             !.name = found[1], !.pdf_filename = apn, !.is_assembly = TRUE,
                             !.max_retries = DefaultMaxRetries, !.attempt = 0,
                             !.calls = 1, !.failed = 0, !.sleeps = 0, !.slept = <<>>,
                             !.raised_last = PyNone, !.reextract = "started"])
       ELSE WriteOutput(w, r1)

\* main.py:303-309: the per-file job starts, process_with_retry makes its first attempt
BeginJob(w, r) ==
    LET pdf_file == r.pdf_files[r.i + 1]
    IN St(w, [r EXCEPT !.pc = "extract", !.caller = "file",
                       !.name = pdf_file, !.pdf_filename = Stem(pdf_file),
                       !.is_assembly = FALSE,
                       !.max_retries = DefaultMaxRetries, !.attempt = 0,
                       !.calls = 1, !.failed = 0, !.sleeps = 0, !.slept = <<>>, !.raised_last = PyNone,
                       !.attempted = Append(@, pdf_file)])

\* a variant of Tripped that never trips
TrippedNever(cf) == FALSE

\* a variant of Tripped that needs one failure more
TrippedLate(cf) == cf > MAX_CONSECUTIVE_FAILURES

\* main.py:213
Tripped(cf) == cf >= MAX_CONSECUTIVE_FAILURES

\* a variant of CheckHoldingLock that gives the lock back before the cooldown sleep
CheckThenSleepUnlocked(w, r) ==
    LET r1 == [r EXCEPT !.checks = @ + 1, !.seen = w.cf]
    IN IF Tripped(w.cf)
       THEN St(Released(w), [r1 EXCEPT !.pc = "cooldown", !.cooldowns = @ + 1,
                                       !.sleep_ms = CIRCUIT_BREAKER_DELAY * 1000])
       ELSE BeginJob(Released(w), r1)

\* main.py:213-221, circuit_breaker_check with the lock held
CheckHoldingLock(w, r) ==
    LET r1 == [r EXCEPT !.checks = @ + 1, !.seen = w.cf]
    IN IF Tripped(w.cf)
       THEN St(w, [r1 EXCEPT !.pc = "cooldown", !.cooldowns = @ + 1,
                             !.sleep_ms = CIRCUIT_BREAKER_DELAY * 1000])
       ELSE BeginJob(Released(w), r1)

\* main.py:301 and 212
circuit_breaker_check(w, r) ==
    IF LockFree(w) THEN CheckHoldingLock(Locked(w, r.id), r)
    ELSE St(Enqueued(w, r.id), [r EXCEPT !.pc = "lock_check", !.waited = @ + 1])

\* a variant of LoopNext that leaves the loop before the last file
LoopNextEarly(w, r) ==
    IF r.i < Len(r.pdf_files) - 1 THEN circuit_breaker_check(w, r) ELSE AfterLoop(w, r)

\* main.py:296: the next iteration of the loop over pdf_files, or its end
LoopNext(w, r) ==
    IF r.i < Len(r.pdf_files) THEN circuit_breaker_check(w, r) ELSE AfterLoop(w, r)

\* a variant of ResetCounter that forgets to reset
ResetCounterKept(cf) == cf

\* main.py:311
ResetCounter(cf) == 0

\* a variant of ResetAndTally that counts a result without items in neither tally
ResetAndTallyItemsOnly(w, r) ==
    LET w1 == Released([w EXCEPT !.cf = ResetCounter(@)])
        r1 == IF r.result # <<>>
              THEN [r EXCEPT !.all_items = @ \o r.result, !.success_count = @ + 1,
                             !.result = <<>>]
              ELSE r
    IN IF r.i < Len(r.pdf_files) - 1
       THEN St(w1, [r1 EXCEPT !.pc = "pace", !.sleep_ms = PacingDelay * 1000])
       ELSE LoopNext(w1, [r1 EXCEPT !.i = @ + 1])

\* main.py:311-324 and 333, with the lock held
ResetAndTally(w, r) ==
    LET w1 == Released([w EXCEPT !.cf = ResetCounter(@)])
        r1 == IF r.result # <<>>
              THEN [r EXCEPT !.all_items = @ \o r.result, !.success_count = @ + 1,
                             !.result = <<>>]
              ELSE [r EXCEPT !.fail_count = @ + 1]
    IN IF r.i < Len(r.pdf_files) - 1
       THEN St(w1, [r1 EXCEPT !.pc = "pace", !.sleep_ms = PacingDelay * 1000])
       ELSE LoopNext(w1, [r1 EXCEPT !.i = @ + 1])

\* main.py:310: process_with_retry returned data for a file
FileReturned(w, r, data) ==
    LET r1 == [r EXCEPT !.result = data]
    IN IF LockFree(w) THEN ResetAndTally(Locked(w, r.id), r1)
       ELSE St(Enqueued(w, r.id), [r1 EXCEPT !.pc = "lock_reset"])

\* a variant of IncrementAndTally that leaves the loop at the first failed file
IncrementAndBreak(w, r) ==
    LET w1 == Released([w EXCEPT !.cf = @ + 1])
        r1 == [r EXCEPT !.fail_count = @ + 1, !.reported = r.error, !.error = PyNone,
                        !.i = Len(r.pdf_files)]
    IN LoopNext(w1, r1)

\* main.py:328-333, with the lock held
IncrementAndTally(w, r) ==
    LET w1 == Released([w EXCEPT !.cf = @ + 1])
        r1 == [r EXCEPT !.fail_count = @ + 1, !.reported = r.error, !.error = PyNone,
                        !.i = @ + 1]
    IN LoopNext(w1, r1)

\* main.py:326-327: process_with_retry raised for a file
FileRaised(w, r, error_msg) ==
    LET r1 == [r EXCEPT !.error = error_msg]
    IN IF LockFree(w) THEN IncrementAndTally(Locked(w, r.id), r1)
       ELSE St(Enqueued(w, r.id), [r1 EXCEPT !.pc = "lock_incr"])

\* main.py:360-378, then the output
AssemblyReturned(w, r, data) ==
    LET merged == MergeResult(r.combined_order, data, r.assembly_part_number)
    IN WriteOutput(w, [r EXCEPT !.combined_order = merged, !.all_items = merged,
                                !.reextract = "returned"])

\* a variant of AssemblyRaised without the except clause: the error ends the batch
AssemblyRaisedUncaught(w, r, error_msg) ==
    St(w, [r EXCEPT !.pc = "exited", !.reported = error_msg, !.reextract = "raised"])

\* a variant of AssemblyRaised that counts the failed re-extraction like a failed file
AssemblyRaisedCounted(w, r, error_msg) ==
    WriteOutput([w EXCEPT !.cf = @ + 1],
                [r EXCEPT !.fail_count = @ + 1, !.reported = error_msg,
                          !.reextract = "raised"])

\* main.py:379-382, then the output
AssemblyRaised(w, r, error_msg) ==
    WriteOutput(w, [r EXCEPT !.reported = error_msg, !.reextract = "raised"])

\* the locals of a finished process_with_retry call are dead
CallEnded(r) ==
    [r EXCEPT !.name = <<>>, !.pdf_filename = <<>>, !.is_assembly = FALSE,
              !.max_retries = 0, !.attempt = 0, !.sleep_ms = 0,
              !.calls = 0, !.failed = 0, !.sleeps = 0, !.slept = <<>>, !.raised_last = PyNone]

\* process_with_retry ends: its caller goes on
Finish(w, r, ok, data, error_msg) ==
    CASE r.caller = "file" ->
            IF ok THEN FileReturned(w, CallEnded(r), data)
            ELSE FileRaised(w, CallEnded(r), error_msg)
      [] r.caller = "assembly" ->
            IF ok THEN AssemblyReturned(w, CallEnded(r), data)
            ELSE AssemblyRaised(w, CallEnded(r), error_msg)
      [] OTHER ->
            IF ok THEN St(w, [r EXCEPT !.pc = "returned", !.outcome = "returned", !.result = data])
            ELSE St(w, [r EXCEPT !.pc = "raised", !.outcome = "raised", !.error = error_msg])

-----------------------------------------------------------------------------
(* Actions: each resumes coroutine p at the await it is suspended at and    *)
(* runs it to its next await                                                *)

\* the coroutine and the shared state after a block
Becomes(p, st) ==
    /\ run' = [run EXCEPT ![p] = st.r]
    /\ consecutive_failures' = st.w.cf
    /\ failure_lock' = st.w.lock
    /\ UNCHANGED <<merge, detection>>
    /\ retry_log' =
          IF ~retry_log.on THEN retry_log
          ELSE LET old == retry_log.retries
                   \* a shorter list of attempted files is that of a new batch
                   kept(k) == IF Len(st.r.attempted) >= Len(run[p].attempted) /\ k <= Len(old)
                              THEN old[k] ELSE 0
                   \* the block printed "API error ..., retrying" for a file (main.py:80-84)
                   retrying == st.r.pc = "backoff" /\ run[p].pc = "extract"
                               /\ st.r.caller = "file"
               IN [retry_log EXCEPT !.retries =
                      [k \in 1..Len(st.r.attempted) |->
                          IF k = Len(st.r.attempted) /\ retrying THEN kept(k) + 1 ELSE kept(k)]]
    /\ LET \* the block printed "Error extracting ..." (main.py:329-330)
           job_raised == /\ st.r.fail_count = run[p].fail_count + 1
                         /\ st.r.reported # PyNone
           \* the block counted a file whose job returned (main.py:313-320)
           job_returned == \/ st.r.success_count = run[p].success_count + 1
                           \/ /\ st.r.fail_count = run[p].fail_count + 1
                              /\ st.r.reported = PyNone
           \* the block began with the end of a cooldown (main.py:221)
           cooled == run[p].pc = "cooldown"
       IN /\ trailing_failures' = IF job_raised THEN trailing_failures + 1
                                  ELSE IF job_returned \/ cooled THEN 0
                                  ELSE trailing_failures
          /\ streak' = IF job_raised THEN streak + 1
                       ELSE IF job_returned THEN 0
                       ELSE streak
    /\ blocked_by_cooldown' =
          {q \in DOMAIN run :
              /\ run'[q].pc = "lock_check"
              /\ \/ q \in blocked_by_cooldown
                 \/ \E c \in DOMAIN run : run'[c].pc = "cooldown"}

\* what was printed by the previous block is history
Resumed(p) == [run[p] EXCEPT !.reported = PyNone]

\* a variant of EntryCounter that starts every batch with a counter of 0
EntryCounterReset(cf) == 0

\* main.py:242: extract_batch declares the counter global and takes it as it finds it
EntryCounter(cf) == cf

\* main.py:224-279: extract_batch is called
StartBatch(p, folder, customer_id) ==
    /\ run[p].pc \in {"idle", "done"}
    /\ batches < MaxBatches
    /\ batches' = batches + 1
    /\ LET r == [FreshRun(p) EXCEPT !.folder = folder, !.customer_id = customer_id,
                                    !.given = customer_id,
                                    !.carried = IF retry_log.carry
                                                 THEN consecutive_failures ELSE 0]
           w == [World EXCEPT !.cf = EntryCounter(@)]
           pdf_files == PdfFiles(folder)
       IN IF ~FolderExists(folder) \/ pdf_files = <<>>
          THEN Becomes(p, St(World, [r EXCEPT !.pc = "exited"]))
          ELSE IF customer_id = "auto"
          THEN Becomes(p, St(w, [r EXCEPT !.pc = "customer", !.pdf_files = pdf_files,
                                          !.first_pdf = pdf_files[1],
                                          !.customer_runs = @ + 1]))
          ELSE Becomes(p, LoopNext(w, [r EXCEPT !.pdf_files = pdf_files]))

\* main.py:269-275: detect_customer_from_pdf_vision returns
CustomerDetected(p, customer) ==
    /\ run[p].pc = "customer"
    /\ Becomes(p, LoopNext(World, [Resumed(p) EXCEPT !.customer_id = customer]))
    /\ UNCHANGED batches

\* main.py:220-221: the cooldown sleep ends
CooldownDone(p) ==
    /\ run[p].pc = "cooldown"
    /\ Becomes(p, BeginJob(Released([World EXCEPT !.cf = 0]),
                           [Resumed(p) EXCEPT !.sleep_ms = 0]))
    /\ UNCHANGED batches

\* the lock is handed to a coroutine waiting at main.py:212, 310 or 327
LockGranted(p) ==
    /\ run[p].pc \in {"lock_check", "lock_reset", "lock_incr"}
    /\ failure_lock.owner = p
    /\ Becomes(p, CASE run[p].pc = "lock_check" -> CheckHoldingLock(World, Resumed(p))
                    [] run[p].pc = "lock_reset" -> ResetAndTally(World, Resumed(p))
                    [] OTHER -> IncrementAndTally(World, Resumed(p)))
    /\ UNCHANGED batches

\* main.py:64-67: extract_order_details_from_pdf returns
ExtractReturns(p) ==
    /\ run[p].pc = "extract"
    /\ LET r == Resumed(p)
       IN Becomes(p, Finish(World, r, TRUE,
                            ExtractAnswer(r.folder, r.name, r.pdf_filename, r.is_assembly),
                            PyNone))
    /\ UNCHANGED batches

\* main.py:68-84: extract_order_details_from_pdf raises
ExtractRaises(p, error_msg, jitter) ==
    /\ run[p].pc = "extract"
    /\ LET r == [Resumed(p) EXCEPT !.failed = @ + 1, !.raised_last = error_msg]
       IN IF ~IsRetryable(error_msg) \/ IsLastAttempt(r.attempt, r.max_retries)
          THEN Becomes(p, Finish(World, r, FALSE, <<>>, Propagate(error_msg)))
          ELSE Becomes(p, St(World, [r EXCEPT !.pc = "backoff", !.error = error_msg,
                                              !.sleeps = @ + 1,
                                              !.sleep_ms = BaseDelay(r.attempt) * 1000 + jitter,
                                              !.slept = Append(@,
                                                 (BaseDelay(r.attempt) * 1000 + jitter) \div 1000)]))
    /\ UNCHANGED batches

\* main.py:84 and 62: the backoff sleep ends, the loop goes on
BackoffDone(p) ==
    /\ run[p].pc = "backoff"
    /\ LET r == [Resumed(p) EXCEPT !.error = PyNone, !.sleep_ms = 0]
       IN IF r.attempt + 1 < r.max_retries + 1
          THEN Becomes(p, St(World, [r EXCEPT !.pc = "extract", !.attempt = @ + 1,
                                              !.calls = @ + 1]))
          ELSE Becomes(p, Finish(World, r, FALSE, <<>>, sMaxRetriesExceeded))
    /\ UNCHANGED batches

\* main.py:324: the pacing sleep ends
PaceDone(p) ==
    /\ run[p].pc = "pace"
    /\ Becomes(p, LoopNext(World, [Resumed(p) EXCEPT !.i = @ + 1, !.sleep_ms = 0]))
    /\ UNCHANGED batches

\* process_with_retry is called on its own with some max_retries (main.py:44-62)
DirectCall(p, max_retries) ==
    /\ run[p].pc \in {"idle", "returned", "raised"}
    /\ batches < MaxBatches
    /\ batches' = batches + 1
    /\ LET r == [FreshRun(p) EXCEPT !.caller = "direct", !.folder = "single", !.name = fA,
                                    !.pdf_filename = Stem(fA), !.max_retries = max_retries]
       IN IF 0 < max_retries + 1
          THEN Becomes(p, St(World, [r EXCEPT !.pc = "extract", !.calls = 1]))
          ELSE Becomes(p, Finish(World, r, FALSE, <<>>, sMaxRetriesExceeded))

-----------------------------------------------------------------------------
(* Specifications *)

InitShared ==
    /\ consecutive_failures = 0
    /\ failure_lock = [owner |-> 0, waiters |-> <<>>]
    /\ batches = 0
    /\ trailing_failures = 0
    /\ streak = 0
    /\ blocked_by_cooldown = {}

\* no merge on its own is in progress
NoMerge == [items |-> <<>>, data |-> <<>>, assembly_part_number |-> PyNone,
            merged |-> <<>>, done |-> FALSE, twice |-> <<>>, again |-> FALSE]

\* the backoff sleeps are not recorded
NoRetryLog == [on |-> FALSE, retries |-> <<>>, carry |-> FALSE]

\* no detect_assembly on its own is in progress
NoDetection == [kind |-> "none", items |-> <<>>, result |-> PyNone, done |-> FALSE]

\* one process that calls extract_batch some times, one call after the other
Init ==
    /\ run = [p \in {1} |-> FreshRun(p)]
    /\ InitShared
    /\ merge = NoMerge
    /\ detection = NoDetection
    /\ retry_log = NoRetryLog

Next ==
    \/ \E folder \in Folders, customer_id \in {"auto", "elten"} :
          StartBatch(1, folder, customer_id)
    \/ \E customer \in DetectedCustomers : CustomerDetected(1, customer)
    \/ CooldownDone(1)
    \/ ExtractReturns(1)
    \/ \E error_msg \in ErrorMessages, jitter \in JitterMs :
          ExtractRaises(1, error_msg, jitter)
    \/ BackoffDone(1)
    \/ PaceDone(1)

Spec == Init /\ [][Next]_vars

\* two coroutines of one event loop, each calling extract_batch, as asyncio.gather would
\* run them: they share consecutive_failures and _failure_lock (main.py:203-206)
Coroutines == {1, 2}

InitConc ==
    /\ run = [p \in Coroutines |-> FreshRun(p)]
    /\ InitShared
    /\ merge = NoMerge
    /\ detection = NoDetection
    /\ retry_log = NoRetryLog

\* the folders the concurrent batches work on, and the error their backend calls raise
ConcFolders == {"six", "single"}

\* each coroutine calls extract_batch once
StartConcurrentBatch(p, folder) ==
    /\ run[p].pc = "idle"
    /\ StartBatch(p, folder, "elten")

NextConc ==
    \/ \E p \in Coroutines, folder \in ConcFolders : StartConcurrentBatch(p, folder)
    \/ \E p \in Coroutines : CooldownDone(p)
    \/ \E p \in Coroutines : LockGranted(p)
    \/ \E p \in Coroutines : ExtractReturns(p)
    \/ \E p \in Coroutines : ExtractRaises(p, mBadRequest, 0)
    \/ \E p \in Coroutines : PaceDone(p)

SpecConc == InitConc /\ [][NextConc]_vars

\* main.py:360-378 for an order of two items, the first of them the assembly "A", and a
\* re-extraction that returned `returned` items
MergeInputs ==
    {[items |-> <<Item(Stem(fA), RawItem(<<1>>, <<1>>, vSteel, PyNone, old_surface, old_bom)),
                  Item(Stem(fB), RawItem(<<>>, <<>>, vSteel, PyNone, other_surface, PyNoneList))>>,
      data |-> [k \in 1..returned |->
                   Item(Stem(fA), RawItem(<<>>, <<>>, PyNone, PyNone, new_surface, new_bom))],
      assembly_part_number |-> Stem(fA),
      merged |-> <<>>, done |-> FALSE, twice |-> <<>>, again |-> FALSE] :
        old_surface \in Surfaces, new_surface \in Surfaces, other_surface \in {vNone},
        old_bom \in BomLists, new_bom \in BomLists, returned \in 0..1}

\* main.py:360-378: the merge runs
MergeStep ==
    /\ ~merge.done
    /\ merge' = [merge EXCEPT
                    !.merged = MergeResult(merge.items, merge.data, merge.assembly_part_number),
                    !.done = TRUE]
    /\ UNCHANGED <<run, consecutive_failures, failure_lock, batches, trailing_failures, streak,
                   blocked_by_cooldown, detection, retry_log>>

InitMerge ==
    /\ run = [p \in {1} |-> FreshRun(p)]
    /\ InitShared
    /\ merge \in MergeInputs
    /\ detection = NoDetection
    /\ retry_log = NoRetryLog

\* main.py:360-378 once more, with the same re-extracted data on the merged items
MergeAgain ==
    /\ merge.done
    /\ ~merge.again
    /\ merge' = [merge EXCEPT
                    !.twice = MergeResult(merge.merged, merge.data, merge.assembly_part_number),
                    !.again = TRUE]
    /\ UNCHANGED <<run, consecutive_failures, failure_lock, batches, trailing_failures, streak,
                   blocked_by_cooldown, detection, retry_log>>

NextMerge == MergeStep \/ MergeAgain

SpecMerge == InitMerge /\ [][NextMerge]_vars

\* an item of which detect_assembly reads part_number and bom_part_numbers (main.py:163-199)
DetectItem(part_number, bom_part_numbers) ==
    Item(part_number, RawItem(<<>>, <<>>, PyNone, PyNone, PyNone, bom_part_numbers))

\* part numbers (file stems) and BOM lists of the items of an order
DetectParts == {Stem(fA), Stem(fB), Stem(fC)}
DetectBoms ==
    {PyNoneList, <<>>, << <<"B","_","R","e","v","2">> >>, << <<"A">> >>,
     << <<"Z">>, <<"C">> >>}

\* the strings of at most MaxIdLen characters out of a letter of a part number, another
\* letter and a digit, and some that hold the revision marker
IdStrings ==
    UNION {[1..n -> {"B", "X", "2"}] : n \in 0..MaxIdLen}
    \cup {<<"B","_","R","e","v","2">>, <<"X","_","R","e","v">>, <<"_","R","e","v","B">>,
          <<"_","R","e","v","2">>}

\* the inputs of detect_assembly on its own: every list of at most MaxItems items, and
\* every pair of an item with part number o and an item "Q" with the one BOM reference r
DetectInputs ==
    {[kind |-> "list", items |-> items, result |-> PyNone, done |-> FALSE] :
        items \in UNION {[1..n -> {DetectItem(pn, bom) : pn \in DetectParts, bom \in DetectBoms}] :
                            n \in 0..MaxItems}}
    \cup
    {[kind |-> "pair", items |-> <<DetectItem(o, PyNoneList), DetectItem(<<"Q">>, <<r>>)>>,
      result |-> PyNone, done |-> FALSE] :
        r \in IdStrings, o \in IdStrings \ {<<>>}}

\* main.py:339: detect_assembly is called
DetectStep ==
    /\ ~detection.done
    /\ detection' = [detection EXCEPT !.result = detect_assembly(detection.items), !.done = TRUE]
    /\ UNCHANGED <<run, consecutive_failures, failure_lock, batches, trailing_failures, streak,
                   blocked_by_cooldown, merge, retry_log>>

InitDetect ==
    /\ run = [p \in {1} |-> FreshRun(p)]
    /\ InitShared
    /\ merge = NoMerge
    /\ detection \in DetectInputs
    /\ retry_log = NoRetryLog

NextDetect == DetectStep

SpecDetect == InitDetect /\ [][NextDetect]_vars

\* batches on the folder "kit" with a backend that is rate-limited now and then and
\* recovers: a job fails at most MaxJobFailures times, with a 429 error, before it returns
InitRecover ==
    /\ run = [p \in {1} |-> FreshRun(p)]
    /\ InitShared
    /\ merge = NoMerge
    /\ detection = NoDetection
    /\ retry_log = [on |-> TRUE, retries |-> <<>>, carry |-> FALSE]

\* main.py:68-84: extract_order_details_from_pdf raises while the backend has not recovered
TransientFailure(p, error_msg, jitter) ==
    /\ run[p].failed < MaxJobFailures
    /\ ExtractRaises(p, error_msg, jitter)

NextRecover ==
    \/ \E customer_id \in {"auto", "elten"} : StartBatch(1, "kit", customer_id)
    \/ \E customer \in DetectedCustomers : CustomerDetected(1, customer)
    \/ ExtractReturns(1)
    \/ \E jitter \in JitterMs : TransientFailure(1, mRateLimit, jitter)
    \/ BackoffDone(1)
    \/ PaceDone(1)

SpecRecover == InitRecover /\ [][NextRecover]_vars

\* batches one after the other in one process, as benchmark.py:81-95 runs them, every job
\* returning or raising a fatal error; the counter found at each call is recorded
InitCarry ==
    /\ run = [p \in {1} |-> FreshRun(p)]
    /\ InitShared
    /\ merge = NoMerge
    /\ detection = NoDetection
    /\ retry_log = [on |-> FALSE, retries |-> <<>>, carry |-> TRUE]

CarryFolders == {"six", "order", "single"}

NextCarry ==
    \/ \E folder \in CarryFolders : StartBatch(1, folder, "elten")
    \/ CooldownDone(1)
    \/ ExtractReturns(1)
    \/ ExtractRaises(1, mBadRequest, 0)
    \/ PaceDone(1)

SpecCarry == InitCarry /\ [][NextCarry]_vars

\* process_with_retry called directly with any max_retries from -1 to MaxRetriesArg
NextRetry ==
    \/ \E max_retries \in (-1)..MaxRetriesArg : DirectCall(1, max_retries)
    \/ ExtractReturns(1)
    \/ \E error_msg \in ErrorMessages, jitter \in JitterMs :
          ExtractRaises(1, error_msg, jitter)
    \/ BackoffDone(1)

SpecRetry == Init /\ [][NextRetry]_vars

-----------------------------------------------------------------------------
(* Properties of process_with_retry, checked under SpecRetry *)

\* the messages of ErrorMessages that contain "503", "429" or "overloaded", and the others
RetryableMessages == {mUnavailable, mRateLimit, mOverloaded}
FatalMessages == {mBadRequest, mCapitalOverloaded}

\* C1: a call that fails k <= max_retries times in a row with retryable errors is still
\* going, and when the next attempt succeeds the call returns that result after exactly
\* k + 1 attempts and exactly k backoff sleeps.
C1_RetryThenSuccess ==
    LET r == run[1]
    IN /\ r.outcome = "returned" =>
            /\ r.result = ExtractAnswer("single", fA, Stem(fA), FALSE)
            /\ r.failed <= r.max_retries
            /\ r.calls = r.failed + 1
            /\ r.sleeps = r.failed
       /\ (r.outcome = "raised" /\ r.failed <= r.max_retries) =>
            r.raised_last \notin RetryableMessages
       /\ (r.pc = "backoff" /\ r.failed <= r.max_retries) =>
            (r.sleeps = r.failed /\ r.calls = r.failed)

\* C1 witness: the default budget used up to the last retry, then success
C1_Witness ==
    /\ run[1].outcome = "returned"
    /\ run[1].max_retries = DefaultMaxRetries
    /\ run[1].failed = DefaultMaxRetries
    /\ run[1].sleeps = DefaultMaxRetries

\* C2: an attempt that raises a non-retryable error ends the call at once with that
\* error: no attempt and no sleep follows it, and no sleep ever follows a fatal error;
\* a fatal first attempt means one attempt and zero sleeps.
C2_FatalPropagatesAtOnce ==
    LET r == run[1]
    IN /\ r.pc = "backoff" => r.error \in RetryableMessages
       /\ r.raised_last \in FatalMessages =>
            /\ r.outcome = "raised"
            /\ r.error = r.raised_last
            /\ r.calls = r.failed
            /\ r.sleeps = r.failed - 1
       /\ (r.raised_last \in FatalMessages /\ r.failed = 1) =>
            (r.calls = 1 /\ r.sleeps = 0)

\* C2 witness: the first attempt raises "Overloaded" (capital O, no marker in it)
C2_Witness ==
    /\ run[1].outcome = "raised"
    /\ run[1].error = mCapitalOverloaded
    /\ run[1].max_retries = DefaultMaxRetries
    /\ run[1].calls = 1
    /\ run[1].sleeps = 0

\* C3: never more than max_retries + 1 attempts; when every attempt failed with a
\* retryable error there were exactly max_retries + 1 attempts and max_retries sleeps and
\* the caller gets the last attempt's own error; with max_retries >= 0 the generic
\* "Max retries exceeded" error is never raised.
C3_RetriesExhausted ==
    LET r == run[1]
    IN /\ r.calls <= r.max_retries + 1
       /\ r.sleeps <= r.max_retries \/ r.sleeps = 0
       /\ (r.outcome = "raised" /\ r.raised_last \in RetryableMessages) =>
            /\ r.calls = r.max_retries + 1
            /\ r.sleeps = r.max_retries
            /\ r.error = r.raised_last
       /\ (r.outcome = "raised" /\ r.max_retries >= 0) => r.error # sMaxRetriesExceeded

\* C3 witness: the default 8 attempts and 7 sleeps, then the rate-limit error itself
C3_Witness ==
    /\ run[1].outcome = "raised"
    /\ run[1].max_retries = DefaultMaxRetries
    /\ run[1].calls = DefaultMaxRetries + 1
    /\ run[1].sleeps = DefaultMaxRetries
    /\ run[1].error = mRateLimit

-----------------------------------------------------------------------------
(* Properties of the circuit breaker within extract_batch, checked under Spec *)

\* C4: a file job fails when process_with_retry raises for it.  The counter equals the
\* number of file jobs that failed in a row since the last job that returned or the last
\* cooldown; a check that finds it at the threshold (5) starts one cooldown of 300 s and
\* attempts no file meanwhile; when the cooldown ends the counter is 0 and the same file
\* is attempted without another check or wait; a check that finds it below 5 waits for
\* nothing and leaves it as found.
C4_StateOk ==
    /\ consecutive_failures = trailing_failures
    /\ run[1].pc = "cooldown" =>
          /\ run[1].seen = MAX_CONSECUTIVE_FAILURES
          /\ consecutive_failures = MAX_CONSECUTIVE_FAILURES
          /\ run[1].sleep_ms = 300 * 1000

C4_StepOk ==
    LET r == run[1]
        r2 == run'[1]
        checked == r2.checks = r.checks + 1
    IN /\ (checked /\ trailing_failures' >= MAX_CONSECUTIVE_FAILURES) =>
            /\ r2.pc = "cooldown"
            /\ r2.cooldowns = r.cooldowns + 1
            /\ r2.attempted = r.attempted
       /\ (checked /\ trailing_failures' < MAX_CONSECUTIVE_FAILURES) =>
            /\ r2.pc = "extract"
            /\ r2.cooldowns = r.cooldowns
            /\ r2.sleep_ms = 0
            /\ consecutive_failures' = r2.seen
            /\ r2.seen = trailing_failures'
       /\ r.pc = "cooldown" =>
            /\ r2.pc = "extract"
            /\ consecutive_failures' = 0
            /\ r2.cooldowns = r.cooldowns
            /\ r2.checks = r.checks
            /\ r2.i = r.i
            /\ r2.attempted = Append(r.attempted, r.pdf_files[r.i + 1])

C4_CircuitBreakerTrip == [](C4_StateOk) /\ [][C4_StepOk]_vars

\* C4 witness: the first batch of the process, five files failed in a row, the
\* cooldown is over and the sixth file is being attempted
C4_Witness ==
    /\ batches = 1
    /\ run[1].folder = "six"
    /\ run[1].pc = "extract"
    /\ run[1].i = 5
    /\ run[1].fail_count = 5
    /\ run[1].success_count = 0
    /\ run[1].cooldowns = 1
    /\ run[1].seen = MAX_CONSECUTIVE_FAILURES
    /\ consecutive_failures = 0

\* C5: a cooldown is only ever started when the last five file jobs all raised, with no
\* job that returned among them; a job counted as successful leaves the counter at 0.
C5_StateOk ==
    run[1].pc = "cooldown" => streak >= MAX_CONSECUTIVE_FAILURES

C5_StepOk ==
    /\ run'[1].success_count = run[1].success_count + 1 => consecutive_failures' = 0
    /\ run'[1].cooldowns = run[1].cooldowns + 1 => streak' >= MAX_CONSECUTIVE_FAILURES

C5_CooldownOnlyAfterFiveFailures == [](C5_StateOk) /\ [][C5_StepOk]_vars

\* C5 witness: a batch with five failed files in all, a success after the second, and
\* no cooldown
C5_Witness ==
    /\ batches = 1
    /\ run[1].folder = "six"
    /\ run[1].pc = "done"
    /\ run[1].fail_count = 5
    /\ run[1].success_count = 1
    /\ Len(run[1].all_items) = 1
    /\ run[1].all_items[1].part_number = <<"p", "3">>
    /\ run[1].cooldowns = 0

\* C6 (as claimed): every file counted in fail_count adds exactly one to the counter and
\* every file counted in success_count leaves it at 0.
C6_CounterFollowsTally ==
    [][/\ run'[1].fail_count = run[1].fail_count + 1 =>
            consecutive_failures' = consecutive_failures + 1
       /\ run'[1].success_count = run[1].success_count + 1 =>
            consecutive_failures' = 0]_vars

-----------------------------------------------------------------------------
(* Properties of concurrent batches, checked under SpecConc *)

\* the coroutines that are in the cooldown sleep of circuit_breaker_check
C7_Cooling == {p \in Coroutines : run[p].pc = "cooldown"}

\* at most one cooldown is in progress, and it is the lock holder's
C7_StateOk ==
    /\ Cardinality(C7_Cooling) <= 1
    /\ \A p \in C7_Cooling : failure_lock.owner = p

\* a coroutine that waited in circuit_breaker_check while a cooldown ran goes on: it reads
\* the counter as reset by that cooldown (the failures recorded since, none when there are
\* two coroutines), and starts no cooldown; and whoever
\* starts a cooldown does so for five failures recorded after the last cooldown ended
C7_StepOk ==
    \A p \in Coroutines :
        /\ (p \in blocked_by_cooldown /\ run[p].pc = "lock_check" /\ run'[p].pc # "lock_check") =>
              /\ run'[p].checks = run[p].checks + 1
              /\ run'[p].seen = trailing_failures
              /\ Cardinality(Coroutines) = 2 => run'[p].seen = 0
              /\ run'[p].pc # "cooldown"
              /\ run'[p].cooldowns = run[p].cooldowns
        /\ (run[p].pc # "cooldown" /\ run'[p].pc = "cooldown") =>
              trailing_failures' >= MAX_CONSECUTIVE_FAILURES

\* C7: with two extract_batch runs concurrent in one process and sharing the circuit
\* counter, at most one cooldown wait is in progress at any time, and a caller of
\* circuit_breaker_check that was blocked during the other's cooldown sees the counter
\* already reset when it proceeds and starts no second cooldown for the same failures
C7_OneCooldownAtATime == [](C7_StateOk) /\ [][C7_StepOk]_vars

\* coroutine 2 waited in its first check while coroutine 1 cooled down, and has gone on
\* to its first file having read a counter of 0
C7_Witness ==
    /\ run[1].cooldowns = 1
    /\ run[1].pc # "cooldown"
    /\ run[2].waited = 1
    /\ run[2].checks = 1
    /\ run[2].seen = 0
    /\ run[2].cooldowns = 0
    /\ run[2].pc = "extract"

-----------------------------------------------------------------------------
(* Properties of the batch as a whole, checked under Spec *)

\* the batch is between its first job and its end
C8_Running == run[1].pc \notin {"idle", "exited", "done"}

\* the files attempted so far are the first files of the input, in order; at the end every
\* file has been attempted and counted, and the output is written
C8_StateOk ==
    LET r == run[1]
    IN /\ Len(r.attempted) <= Len(r.pdf_files)
       /\ r.attempted = SubSeq(r.pdf_files, 1, Len(r.attempted))
       /\ r.pc = "done" =>
             /\ r.attempted = r.pdf_files
             /\ r.success_count + r.fail_count = Len(r.pdf_files)
             /\ r.written

\* a file whose job raised is followed by the next file of the input, if there is one
C8_StepOk ==
    (run[1].pc = "extract" /\ run[1].caller = "file"
        /\ run'[1].fail_count = run[1].fail_count + 1
        /\ run'[1].reported # PyNone
        /\ run[1].i < Len(run[1].pdf_files) - 1)
    => /\ run'[1].pc \in {"extract", "cooldown"}
       /\ run'[1].caller = "file"
       /\ run'[1].pc = "extract" => run'[1].name = run[1].pdf_files[run[1].i + 2]

\* the steps one job can take at most: an attempt and a backoff per try, a pacing sleep,
\* a cooldown
C8_JobSteps == 2 * (DefaultMaxRetries + 1) + 3

\* the steps the job in progress can still take
C8_StepsLeft(r) ==
    CASE r.pc = "extract" -> 2 * (r.max_retries - r.attempt) + 3
      [] r.pc = "backoff" -> 2 * (r.max_retries - r.attempt) + 2
      [] r.pc \in {"pace", "customer"} -> 2
      [] r.pc = "cooldown" -> 1
      [] OTHER -> 0

\* a bound on the steps a batch can still take: the files not begun, the re-extraction
\* not begun and the job in progress
C8_Measure(r) ==
    C8_JobSteps * (Len(r.pdf_files) - Len(r.attempted))
    + (IF r.reextract = "none" THEN C8_JobSteps ELSE 0)
    + C8_StepsLeft(r)

\* a running batch never stops short of its end, and each of its steps brings the end nearer
C8_Terminates ==
    C8_Running =>
        /\ run'[1].pc # "exited"
        /\ C8_Measure(run'[1]) < C8_Measure(run[1])
        /\ C8_Measure(run'[1]) >= 0

\* the batch is suspended at a sleep or at a call of the backend, which end: it is not
\* waiting for a lock nobody releases
C8_Awaiting ==
    /\ run[1].pc \in {"customer", "cooldown", "extract", "backoff", "pace"}
    /\ failure_lock.owner \in {0, 1}

\* C8: whatever files fail, and however (fatal error or retries exhausted, every file
\* included), extract_batch attempts every input file in order, no failure of a file ends
\* the batch or keeps a later file from being attempted, and the batch reaches its end
\* with the output written: a running batch can always take a step, and takes a bounded
\* number of them
C8_BatchCompletes ==
    /\ [](C8_StateOk /\ (C8_Running => C8_Awaiting))
    /\ [][C8_StepOk /\ C8_Terminates]_vars

\* a batch of three files is done, every file failed, the output is written
C8_Witness ==
    /\ run[1].pc = "done"
    /\ run[1].folder = "order"
    /\ run[1].fail_count = 3
    /\ run[1].success_count = 0
    /\ run[1].attempted = run[1].pdf_files
    /\ run[1].written

\* C9: when the restricted re-extraction of the assembly raises (fatal error or retries
\* exhausted), the combined result is, item by item and field by field, what it was before
\* the re-extraction started, the batch is done and its output, written from that result,
\* exists
C9_FailedReextractionKeepsResult ==
    run[1].reextract = "raised" =>
        /\ run[1].pc = "done"
        /\ run[1].written
        /\ run[1].combined_order = run[1].before_merge
        /\ run[1].xml = [k \in 1..Len(run[1].before_merge) |->
                            write_item_xml(run[1].before_merge[k])]

\* the re-extraction of an assembly among three items raised and the batch is done
C9_Witness ==
    /\ run[1].reextract = "raised"
    /\ run[1].pc = "done"
    /\ Len(run[1].before_merge) = 3
    /\ run[1].assembly_part_number # PyNone

-----------------------------------------------------------------------------
(* Properties of the merge, checked under SpecMerge *)

\* the word "none" in any mix of upper and lower case
C10_IsNoneWord(x) ==
    /\ Len(x) = 4
    /\ x[1] \in {"n", "N"} /\ x[2] \in {"o", "O"} /\ x[3] \in {"n", "N"} /\ x[4] \in {"e", "E"}

\* a surface treatment that is absent, empty or "none"
C10_NoValue(x) == x = PyNone \/ x = <<>> \/ C10_IsNoneWord(x)

\* C10: after a re-extraction that returned an item, the surface treatment of the assembly
\* item is the re-extracted value exactly when that value is non-empty and not "none" in
\* any case and the original value was absent, empty or "none" in any case; otherwise it
\* is the original value (a real original value is never overwritten)
C10_SurfaceReplacedOnlyWhenMissing ==
    (merge.done /\ merge.data # <<>>) =>
        LET old_surface == merge.items[1].surface_treatment
            new_surface == merge.data[1].surface_treatment
        IN /\ Len(merge.merged) = Len(merge.items)
           /\ merge.merged[1].part_number = merge.assembly_part_number
           /\ merge.merged[1].surface_treatment =
                 IF ~C10_NoValue(new_surface) /\ C10_NoValue(old_surface)
                 THEN new_surface ELSE old_surface

\* an original "None" has become "Verzinkt"
C10_Witness ==
    /\ merge.done
    /\ merge.items[1].surface_treatment = vNone
    /\ merge.data # <<>>
    /\ merge.data[1].surface_treatment = vVerzinkt
    /\ merge.merged[1].surface_treatment = vVerzinkt

\* C11: after a re-extraction that returned an item, the BOM part numbers of the assembly
\* item are the re-extracted list whenever that list is non-empty, whatever the original
\* list was and whatever happened to the surface treatment; when the re-extracted list is
\* absent or empty they are the original list
C11_BomReplacedWhenFound ==
    (merge.done /\ merge.data # <<>>) =>
        LET old_bom == merge.items[1].bom_part_numbers
            new_bom == merge.data[1].bom_part_numbers
        IN merge.merged[1].bom_part_numbers =
              IF new_bom # PyNoneList /\ new_bom # <<>> THEN new_bom ELSE old_bom

\* an original list of two references has become the re-extracted list of one, while the
\* original surface treatment was kept
C11_Witness ==
    /\ merge.done
    /\ merge.data # <<>>
    /\ merge.items[1].bom_part_numbers = << <<"B">>, <<"C">> >>
    /\ merge.data[1].bom_part_numbers = << <<"D">> >>
    /\ merge.merged[1].bom_part_numbers = << <<"D">> >>
    /\ merge.items[1].surface_treatment = vPoedercoaten
    /\ merge.merged[1].surface_treatment = vPoedercoaten

-----------------------------------------------------------------------------
(* Properties of the merge inside a batch, checked under Spec *)

\* the fields of an item the merge may not change
C12_Kept(item) ==
    <<item.part_number, item.holes, item.tolerated_lengths, item.material, item.notes>>

\* C12: after a re-extraction that returned, the combined result has the items it had
\* before, in the same order; an item with the assembly's part number differs from what
\* it was at most in surface treatment and BOM part numbers, and every other item is
\* what it was in every field
C12_MergeFrame ==
    run[1].reextract = "returned" =>
        /\ Len(run[1].combined_order) = Len(run[1].before_merge)
        /\ \A k \in 1..Len(run[1].before_merge) :
              LET old == run[1].before_merge[k]
                  new == run[1].combined_order[k]
              IN /\ C12_Kept(new) = C12_Kept(old)
                 /\ old.part_number # run[1].assembly_part_number => new = old

\* the merge changed the surface treatment and the BOM part numbers of the assembly, first
\* of three items
C12_Witness ==
    /\ run[1].reextract = "returned"
    /\ run[1].pc = "done"
    /\ Len(run[1].before_merge) = 3
    /\ run[1].before_merge[1].part_number = run[1].assembly_part_number
    /\ run[1].combined_order[1].surface_treatment # run[1].before_merge[1].surface_treatment
    /\ run[1].combined_order[1].bom_part_numbers # run[1].before_merge[1].bom_part_numbers

-----------------------------------------------------------------------------
(* Properties of the re-extraction and of the phases of a batch, checked under Spec *)

\* a restricted extraction is the re-extraction of the batch, and there is one only in a
\* batch of more than one file in which an item was extracted and detect_assembly
\* returned a part number
C13_StateOk ==
    LET r == run[1]
    IN /\ r.is_assembly => (r.caller = "assembly" /\ r.reextract = "started")
       /\ r.reextract # "none" =>
             /\ Len(r.pdf_files) > 1
             /\ r.assembly_part_number # PyNone
             /\ r.assembly_part_number # <<>>
             /\ r.success_count >= 1
             /\ r.before_merge # <<>>

\* within a batch the re-extraction starts once: when it has ended, no other starts
C13_StepOk ==
    /\ run'[1].reextract = "started" => run[1].reextract \in {"none", "started"}
    /\ (run[1].reextract = "started" /\ run'[1].reextract # "started") =>
          (run'[1].reextract \in {"returned", "raised"} /\ run'[1].pc = "done")
    /\ (run[1].reextract \in {"returned", "raised"} /\ batches' = batches) =>
          (run'[1].reextract = run[1].reextract /\ ~run'[1].is_assembly)

\* C13: a restricted re-extraction is issued only when detect_assembly returned a part
\* number and the batch has more than one file: never in a batch of one file, never when
\* no item was extracted, and at most once in a batch
C13_ReextractionOnlyForAssemblies == [](C13_StateOk) /\ [][C13_StepOk]_vars

\* the re-extraction of a batch of three files is in progress
C13_Witness ==
    /\ run[1].is_assembly
    /\ run[1].pc = "extract"
    /\ run[1].reextract = "started"
    /\ Len(run[1].pdf_files) = 3

-----------------------------------------------------------------------------
(* Properties of detect_assembly, checked under SpecDetect *)

\* reference r and part number o match: o holds r without its revision marker and
\* trailing digits, or r holds o without its revision marker and trailing digits
C14_RefMatches(r, o) == Contains(o, Trim(r)) \/ Contains(r, Trim(o))

\* item k of the list has a BOM reference that matches the part number of an item with
\* another part number
C14_Refers(items, k) ==
    /\ items[k].bom_part_numbers # PyNoneList
    /\ \E j \in 1..Len(items[k].bom_part_numbers), m \in 1..Len(items) :
          /\ items[m].part_number # items[k].part_number
          /\ C14_RefMatches(items[k].bom_part_numbers[j], items[m].part_number)

\* the items A with the BOM reference "B_Rev2", B and C
C14_Example ==
    <<DetectItem(<<"A">>, << <<"B","_","R","e","v","2">> >>),
      DetectItem(<<"B">>, PyNoneList), DetectItem(<<"C">>, PyNoneList)>>

\* C14: on a list of two or more items detect_assembly returns the part number of the
\* first item, in the order of the list, that has a BOM reference matching another item's
\* part number, also when later items have one too; on A (BOM "B_Rev2"), B, C it
\* returns A
C14_FirstReferringItemWins ==
    (detection.done /\ detection.kind = "list") =>
        LET items == detection.items
        IN /\ \A k \in 1..Len(items) :
                 (/\ Len(items) >= 2
                  /\ C14_Refers(items, k)
                  /\ \A j \in 1..(k - 1) : ~C14_Refers(items, j))
                 => detection.result = items[k].part_number
           /\ items = C14_Example => detection.result = <<"A">>

\* of three items the first refers to nothing, the second and the third each refer to
\* another item, and the second is returned
C14_Witness ==
    /\ detection.done
    /\ detection.kind = "list"
    /\ Len(detection.items) = 3
    /\ ~C14_Refers(detection.items, 1)
    /\ C14_Refers(detection.items, 2)
    /\ C14_Refers(detection.items, 3)
    /\ detection.items[3].part_number # detection.items[2].part_number
    /\ detection.items[1].part_number # detection.items[2].part_number
    /\ detection.result = detection.items[2].part_number

\* C15: detect_assembly returns None only for the empty list; for a list with items of
\* which none has a BOM reference matching another item (every list of one item is
\* such a list) it returns the part number of the first item; it has a result for every
\* list
C15_NoneOnlyForEmptyList ==
    (detection.done /\ detection.kind = "list") =>
        LET items == detection.items
        IN /\ detection.result = PyNone <=> items = <<>>
           /\ (items # <<>> /\ \A k \in 1..Len(items) : ~C14_Refers(items, k))
                 => detection.result = items[1].part_number
           /\ Len(items) = 1 => detection.result = items[1].part_number
           /\ detection.result \in {PyNone} \cup {items[k].part_number : k \in 1..Len(items)}

\* of three items with different part numbers none refers to another, though the last
\* has BOM references, and the first is returned
C15_Witness ==
    /\ detection.done
    /\ detection.kind = "list"
    /\ Len(detection.items) = 3
    /\ \A k \in 1..3 : ~C14_Refers(detection.items, k)
    /\ detection.items[3].bom_part_numbers \notin {PyNoneList, <<>>}
    /\ detection.items[3].part_number # detection.items[1].part_number
    /\ detection.items[2].part_number # detection.items[1].part_number
    /\ detection.result = detection.items[1].part_number

\* the reference and the part number of a pair, and whether detect_assembly found the
\* reference of the second item to match the first item
C16_R == detection.items[2].bom_part_numbers[1]
C16_O == detection.items[1].part_number
C16_CodeMatches == detection.result = detection.items[2].part_number

\* C16 as stated: a BOM reference r matches another item's part number o exactly when r
\* contains trim(o) or trim(o) contains r, trim removing the revision marker "_Rev" and
\* trailing digits
C16_MatchAsStated ==
    (detection.done /\ detection.kind = "pair") =>
        (C16_CodeMatches <=> (Contains(C16_R, Trim(C16_O)) \/ Contains(Trim(C16_O), C16_R)))

\* C16 as the code has it: a BOM reference r matches another item's part number o
\* exactly when o contains trim(r) or r contains trim(o)
C16_MatchAsCoded ==
    (detection.done /\ detection.kind = "pair") =>
        (C16_CodeMatches <=> (Contains(C16_O, Trim(C16_R)) \/ Contains(C16_R, Trim(C16_O))))

\* the reference "B2" matches the part number "XB", which does not hold "B2" and whose
\* trimmed form "XB" is not held by "B2"
C16_Witness ==
    /\ detection.done
    /\ detection.kind = "pair"
    /\ C16_R = <<"B", "2">>
    /\ C16_O = <<"X", "B">>
    /\ C16_CodeMatches

-----------------------------------------------------------------------------
(* Properties of a batch with a backend that recovers, checked under SpecRecover *)

\* the part numbers of the three drawings of the folder "kit", in the order of their
\* file names
C17_Parts == << <<"A">>, <<"B">>, <<"C">> >>

\* C17: in a batch of three files of which each gives one item and the third refers to
\* the two others in its BOM, with jobs that fail with a 429 error and then return (the
\* second file twice), no failure is ever counted, and at the end there are three items
\* in the order of the file names, three successes, no failure, a circuit counter of 0,
\* the third file as the assembly and three <Item> elements in that order in the output
C17_RecoveredFailuresNotCounted ==
    /\ run[1].fail_count = 0
    /\ consecutive_failures = 0
    /\ run[1].pc = "done" =>
          /\ [k \in 1..Len(run[1].combined_order) |-> run[1].combined_order[k].part_number]
                = C17_Parts
          /\ run[1].success_count = 3
          /\ run[1].assembly_part_number = <<"C">>
          /\ run[1].written
          /\ Len(run[1].xml) = 3
          /\ \A k \in 1..3 : run[1].xml[k][1] = [tag |-> "PartNumber", text |-> C17_Parts[k]]

\* the batch is done; the job of the second file slept twice before it returned, the
\* jobs of the other files never
C17_Witness ==
    /\ run[1].pc = "done"
    /\ retry_log.retries = <<0, 2, 0>>
    /\ run[1].success_count = 3
    /\ Len(run[1].xml) = 3

-----------------------------------------------------------------------------
(* Properties of the order of the items, checked under Spec *)

\* the input file an item was extracted from: the one whose stem is its part number
C18_FileOf(item) ==
    CHOOSE f \in {run[1].pdf_files[k] : k \in 1..Len(run[1].pdf_files)} :
        Stem(f) = item.part_number

\* no item of the list comes from a file whose name is before that of the file of an
\* earlier item
C18_InFileOrder(items) ==
    \A i \in 1..Len(items), j \in 1..Len(items) :
        i < j => ~StrLess(C18_FileOf(items[j]), C18_FileOf(items[i]))

C18_StateOk ==
    /\ C18_InFileOrder(run[1].all_items)
    /\ C18_InFileOrder(run[1].combined_order)

\* within a batch the list only grows at its end, and only when the job of a file returns
C18_StepOk ==
    batches' = batches =>
        LET old == run[1].all_items
            new == run'[1].all_items
        IN /\ Len(new) >= Len(old)
           /\ \A k \in 1..Len(old) : new[k].part_number = old[k].part_number
           /\ Len(new) > Len(old) => (run[1].pc = "extract" /\ run[1].caller = "file")

\* C18: in every state of a batch the items are in the order of the names of the files
\* they come from; items are appended while the files are processed and never reordered
\* or removed, and the merge keeps the order
C18_ItemsInFileNameOrder == [](C18_StateOk) /\ [][C18_StepOk]_vars

\* a batch on a folder listed as C.pdf, n.txt, A.pdf, B.PDF is done with the items A, B, C
C18_Witness ==
    /\ run[1].pc = "done"
    /\ run[1].folder = "order"
    /\ run[1].reextract = "returned"
    /\ [k \in 1..Len(run[1].combined_order) |-> run[1].combined_order[k].part_number]
          = << <<"A">>, <<"B">>, <<"C">> >>

-----------------------------------------------------------------------------
(* Properties of the batch-level setup failures, checked under Spec *)

\* the folders of the model that are missing or hold no PDF file
C19_NoInputFolders == {"missing", "nopdf"}

\* a batch on such a folder is over, and nothing of the batch has happened
C19_StateOk ==
    run[1].folder \in C19_NoInputFolders =>
        /\ run[1].pc = "exited"
        /\ run[1].customer_id \in {"auto", "elten"}
        /\ run[1].attempted = <<>>
        /\ run[1].checks = 0
        /\ run[1].calls = 0
        /\ run[1].all_items = <<>>
        /\ ~run[1].written

\* the call of extract_batch on such a folder leaves the counter and the lock alone
C19_StepOk ==
    (batches' # batches /\ run'[1].folder \in C19_NoInputFolders) =>
        /\ consecutive_failures' = consecutive_failures
        /\ failure_lock' = failure_lock
        /\ trailing_failures' = trailing_failures

\* C19: extract_batch on a folder that is missing or holds no PDF file exits at once,
\* without customer detection, circuit-breaker check, extraction attempt or output, and
\* leaves consecutive_failures unchanged
C19_NoInputAborts == [](C19_StateOk) /\ [][C19_StepOk]_vars

\* the second batch of the process exits on a folder without PDF files while the counter
\* still holds the failures of the first
C19_Witness ==
    /\ run[1].pc = "exited"
    /\ run[1].folder = "nopdf"
    /\ run[1].customer_id = "auto"
    /\ batches = 2
    /\ consecutive_failures > 0

-----------------------------------------------------------------------------
(* Properties of the order of the phases of a batch, checked under Spec *)

\* the phase of the batch: 0 START, 1 DETECTING_CUSTOMER, 2 PROCESSING_FILES,
\* 4 MERGING_ASSEMBLY, 5 DONE or aborted; DETECTING_ASSEMBLY (3) is the synchronous call of
\* detect_assembly between 2 and what follows, counted by detections
C20_Phase(r) ==
    CASE r.pc = "idle" -> 0
      [] r.pc = "customer" -> 1
      [] r.pc \in {"done", "exited"} -> 5
      [] r.caller = "assembly" -> 4
      [] OTHER -> 2

\* the files whose job has ended
C20_Finished(r) == r.success_count + r.fail_count

C20_StateOk ==
    LET r == run[1]
        phase == C20_Phase(r)
    IN /\ r.pc \notin {"idle", "exited"} =>
             r.customer_runs = (IF r.given = "auto" THEN 1 ELSE 0)
       /\ r.pc = "exited" => (r.customer_runs = 0 /\ r.detections = 0)
       \* customer detection comes before every attempt, on the first file by name
       /\ phase = 1 =>
             (r.checks = 0 /\ r.attempted = <<>> /\ r.calls = 0 /\ C20_Finished(r) = 0)
       /\ r.customer_runs = 1 =>
             /\ r.first_pdf = r.pdf_files[1]
             /\ \A k \in 1..Len(r.pdf_files) : ~StrLess(r.pdf_files[k], r.first_pdf)
       /\ phase = 2 => (r.customer_id # "auto" /\ r.detections = 0 /\ r.reextract = "none")
       \* detect_assembly has run once when the batch merges or is done, after every file
       /\ (phase = 4 \/ r.pc = "done") =>
             /\ r.detections = 1
             /\ C20_Finished(r) = Len(r.pdf_files)
             /\ Len(r.attempted) = Len(r.pdf_files)
       /\ r.reextract # "none" => r.detections = 1
       /\ phase = 4 => r.reextract = "started"

C20_StepOk ==
    LET old == run[1]
        new == run'[1]
    IN batches' = batches =>
          /\ C20_Phase(new) >= C20_Phase(old)
          /\ new.customer_runs = old.customer_runs
          /\ new.detections >= old.detections
          \* detect_assembly is called in the block that ends the job of the last file
          /\ new.detections > old.detections =>
                /\ C20_Phase(old) = 2
                /\ C20_Finished(old) = Len(old.pdf_files) - 1
                /\ C20_Finished(new) = Len(old.pdf_files)

\* C20: a batch goes through START, DETECTING_CUSTOMER, PROCESSING_FILES, DETECTING_ASSEMBLY,
\* MERGING_ASSEMBLY, DONE in that order and never back; customer detection runs once,
\* before every extraction attempt and on the first file by name, exactly when customer_id
\* is "auto"; detect_assembly runs once, after the job of the last file; the restricted
\* re-extraction starts after detect_assembly
C20_PhasesInOrder == [](C20_StateOk) /\ [][C20_StepOk]_vars

\* an auto-detected batch is in its restricted re-extraction
C20_Witness ==
    /\ C20_Phase(run[1]) = 4
    /\ run[1].given = "auto"
    /\ run[1].customer_runs = 1
    /\ run[1].detections = 1
    /\ run[1].first_pdf = fA
    /\ run[1].folder = "order"

-----------------------------------------------------------------------------
(* Properties of the pacing between the files of a batch, checked under Spec *)

\* the block ended the job of a file of the loop
C21_JobEnded ==
    /\ batches' = batches
    /\ C20_Finished(run'[1]) = C20_Finished(run[1]) + 1

\* the coroutine sleeps the pacing delay
C21_Pacing(r) == r.pc = "pace" /\ r.sleep_ms = PacingDelay * 1000

\* C21: the block that ends the job of a file, whatever its outcome, is followed by the
\* 1-second pacing sleep exactly when the file is not the last of the batch
C21_PacingBetweenFiles ==
    [][C21_JobEnded =>
          (C21_Pacing(run'[1]) <=> C20_Finished(run'[1]) < Len(run'[1].pdf_files))]_vars

-----------------------------------------------------------------------------
(* Properties of the circuit-breaker check before the jobs, checked under Spec *)

\* the jobs extract_batch has started through process_with_retry in this batch: one for
\* each file attempted and the restricted re-extraction
C22_JobsStarted(r) == Len(r.attempted) + (IF r.reextract = "none" THEN 0 ELSE 1)

\* the block started a job
C22_JobStarts ==
    /\ batches' = batches
    /\ C22_JobsStarted(run'[1]) > C22_JobsStarted(run[1])

\* C22: every job of a batch, the restricted re-extraction included, starts after a
\* circuit_breaker_check of its own, so with consecutive_failures below the threshold
C22_CheckBeforeEveryJob ==
    /\ [](C22_JobsStarted(run[1]) <= run[1].checks)
    /\ [][C22_JobStarts => consecutive_failures' < MAX_CONSECUTIVE_FAILURES]_vars

-----------------------------------------------------------------------------
(* Properties of the backoff schedule, checked under SpecRetry *)

\* the base delay in seconds after the failure of attempt n, counted from 0
C23_BaseDelay(n) == IF n < 7 THEN <<2, 4, 8, 16, 30, 60, 60>>[n + 1] ELSE 60

RECURSIVE C23_Sum(_)
C23_Sum(seq) == IF seq = <<>> THEN 0 ELSE seq[1] + C23_Sum(Tail(seq))

\* C23: the sleep after the failure of attempt n lasts the n-th entry of
\* [2, 4, 8, 16, 30, 60, 60] seconds, 60 from n = 7 on, plus a jitter of less than a
\* second; a call with max_retries = 7 that fails at every attempt has slept base delays
\* of 2, 4, 8, 16, 30, 60, 60 seconds, non-decreasing and 180 in all
C23_BackoffSchedule ==
    LET r == run[1]
    IN /\ r.pc = "backoff" =>
             /\ r.sleep_ms >= C23_BaseDelay(r.attempt) * 1000
             /\ r.sleep_ms < C23_BaseDelay(r.attempt) * 1000 + 1000
             /\ Len(r.slept) = r.attempt + 1
       /\ \A k \in 1..Len(r.slept) : r.slept[k] = C23_BaseDelay(k - 1)
       /\ (r.outcome = "raised" /\ r.max_retries = 7 /\ r.failed = 8) =>
             /\ r.slept = <<2, 4, 8, 16, 30, 60, 60>>
             /\ \A k \in 1..6 : r.slept[k] <= r.slept[k + 1]
             /\ C23_Sum(r.slept) = 180

\* a call with the default max_retries has failed eight times and raised
C23_Witness ==
    /\ run[1].outcome = "raised"
    /\ run[1].max_retries = DefaultMaxRetries
    /\ run[1].failed = 8
    /\ Len(run[1].slept) = 7
    /\ run[1].raised_last \in RetryableMessages

-----------------------------------------------------------------------------
(* The range of the counter, checked under Spec: the batches of the process *)
(* run one after the other                                                  *)

\* C24: with batches that do not overlap, consecutive_failures is at least 0 and at most
\* MAX_CONSECUTIVE_FAILURES in every state
C24_CounterInRange ==
    /\ consecutive_failures >= 0
    /\ consecutive_failures <= 5
    /\ MAX_CONSECUTIVE_FAILURES = 5

\* the second batch of the process has brought the counter to the threshold again after
\* a cooldown of its own
C24_Witness ==
    /\ batches = 2
    /\ run[1].cooldowns = 1
    /\ run[1].fail_count >= 5
    /\ consecutive_failures = MAX_CONSECUTIVE_FAILURES

-----------------------------------------------------------------------------
(* The empty trimmed string in detect_assembly, checked under SpecDetect on *)
(* the pairs of an item o without BOM and an item "Q" with the reference r  *)

C25_R == detection.items[2].bom_part_numbers[1]
C25_O == detection.items[1].part_number

C25_OnlyDigits(x) == \A k \in 1..Len(x) : IsDigit(x[k])

\* x is made only of digits, or of "_Rev" and then only digits
C25_Vanishes(x) ==
    \/ C25_OnlyDigits(x)
    \/ /\ Len(x) >= 4
       /\ SubSeq(x, 1, 4) = <<"_", "R", "e", "v">>
       /\ C25_OnlyDigits(SubSeq(x, 5, Len(x)))

C25_ShareNoCharacter(x, y) ==
    \A k \in 1..Len(x), j \in 1..Len(y) : x[k] # y[j]

\* C25: a reference made only of digits, or of "_Rev" and digits, trims to the empty
\* string, and so does an identifier made only of digits; in both cases the item holding
\* the reference is declared the assembly, whatever the other string is
C25_EmptyTrimMatchesAll ==
    (detection.kind = "pair" /\ detection.done) =>
        /\ C25_Vanishes(C25_R) => Trim(C25_R) = <<>>
        /\ C25_OnlyDigits(C25_O) => Trim(C25_O) = <<>>
        /\ (Trim(C25_R) = <<>> \/ Trim(C25_O) = <<>>) => detection.result = <<"Q">>

\* the reference "B" and the identifier "22" share no character, and "Q" is the assembly
C25_Witness ==
    /\ detection.kind = "pair"
    /\ detection.done
    /\ C25_R = <<"B">>
    /\ C25_O = <<"2", "2">>
    /\ C25_ShareNoCharacter(C25_R, C25_O)
    /\ detection.result = <<"Q">>

-----------------------------------------------------------------------------
(* Properties of the tallies of a batch, checked under Spec *)

\* the job of a file is going on
C26_InJob(r) == r.pc \in {"extract", "backoff"} /\ r.caller = "file"

\* the files whose processing has finished: those attempted, less the one in its job
C26_FilesFinished(r) == Len(r.attempted) - (IF C26_InJob(r) THEN 1 ELSE 0)

C26_StateOk ==
    LET r == run[1]
    IN /\ r.success_count + r.fail_count = C26_FilesFinished(r)
       /\ r.pc = "done" => r.success_count + r.fail_count = Len(r.pdf_files)
       /\ Len(r.all_items) >= r.success_count
       /\ r.pc = "done" => Len(r.combined_order) >= r.success_count

\* the job of a file returns a result without items
C26_EmptyReturn ==
    /\ C26_InJob(run[1])
    /\ run[1].pc = "extract"
    /\ run'[1].reported = PyNone
    /\ ~C26_InJob(run'[1])
    /\ ExtractAnswer(run[1].folder, run[1].name, run[1].pdf_filename, FALSE) = <<>>

C26_StepOk ==
    C26_EmptyReturn =>
        /\ run'[1].fail_count = run[1].fail_count + 1
        /\ run'[1].success_count = run[1].success_count
        /\ run'[1].all_items = run[1].all_items

\* C26: the two tallies together count the files whose processing has finished, all the
\* input files when the batch is done; a file whose result has no items is counted as
\* failed and adds no item; the result has at least success_count items
C26_EveryFileCountedOnce == [](C26_StateOk) /\ [][C26_StepOk]_vars

\* a batch of six files is done: one raised, two returned no item, three returned an item
C26_Witness ==
    /\ run[1].pc = "done"
    /\ run[1].folder = "six"
    /\ run[1].success_count = 3
    /\ run[1].fail_count = 3
    /\ Len(run[1].combined_order) = 3
    /\ run[1].attempted[1] = fP1
    /\ run[1].all_items[1].part_number = <<"p", "3">>

-----------------------------------------------------------------------------
(* The counter across the batches of one process, checked under SpecCarry *)

\* extract_batch is called
C27_BatchStarts == batches' # batches

\* the block ended the job of a file
C27_JobEnded ==
    /\ batches' = batches
    /\ C26_FilesFinished(run'[1]) = C26_FilesFinished(run[1]) + 1

\* the block recorded the failure of the file that brings the failures carried into the
\* batch (j) and those of its first files (5 - j) to five in a row
C27_FifthInARow ==
    /\ C27_JobEnded
    /\ run'[1].carried < 5
    /\ C26_FilesFinished(run'[1]) = 5 - run'[1].carried
    /\ run'[1].fail_count = 5 - run'[1].carried
    /\ trailing_failures' = 5

\* the call and the end of a batch leave the counter alone: it changes only when the job of
\* a file ends or a cooldown ends
C27_CounterKept ==
    /\ C27_BatchStarts =>
          /\ consecutive_failures' = consecutive_failures
          /\ run'[1].carried = consecutive_failures
    /\ consecutive_failures' # consecutive_failures =>
          (C27_JobEnded \/ run[1].pc = "cooldown")

\* a batch called with the counter at five starts with a cooldown, before any file
C27_CooldownAtCall ==
    (C27_BatchStarts /\ consecutive_failures = 5) =>
        /\ run'[1].pc = "cooldown"
        /\ run'[1].cooldowns = 1
        /\ run'[1].attempted = <<>>

\* C27 (as claimed): a batch called after j trailing failures whose first 5 - j files fail
\* has a cooldown
C27_CarriedFailuresTrip ==
    [][/\ C27_CounterKept
       /\ C27_CooldownAtCall
       /\ C27_FifthInARow => run'[1].pc = "cooldown"]_vars

\* C27 (amended): a batch called after j trailing failures whose first 5 - j files fail
\* has a cooldown at the check before its next file, when it has one; when those were all
\* its files the batch ends without cooldown and leaves the counter at five
C27_CarriedFailuresTripBeforeNextFile ==
    [][/\ C27_CounterKept
       /\ C27_CooldownAtCall
       /\ C27_FifthInARow =>
             IF C26_FilesFinished(run'[1]) < Len(run'[1].pdf_files)
             THEN /\ run'[1].pc = "cooldown"
                  /\ run'[1].cooldowns = 1
                  /\ run'[1].attempted = run[1].attempted
             ELSE /\ run'[1].cooldowns = 0
                  /\ run'[1].pc \in {"done", "extract"}
                  /\ consecutive_failures' = 5]_vars

\* the second batch, on three files, was called after three trailing failures; its first
\* two files failed and it cools down before the third
C27_Witness ==
    /\ batches = 2
    /\ run[1].folder = "order"
    /\ run[1].carried = 3
    /\ run[1].pc = "cooldown"
    /\ run[1].cooldowns = 1
    /\ run[1].fail_count = 2
    /\ Len(run[1].attempted) = 2

-----------------------------------------------------------------------------
(* The lock during a cooldown, checked under SpecConc *)

\* coroutine c is in its cooldown sleep
C28_Cooling(c) == run[c].pc = "cooldown"

\* coroutine q waits for the lock
C28_Waiting(q) == run[q].pc \in {"lock_check", "lock_reset", "lock_incr"}

\* the coroutine that sleeps the cooldown holds the lock
C28_StateOk ==
    \A c \in Coroutines : C28_Cooling(c) => failure_lock.owner = c

\* while c sleeps its cooldown no coroutine completes a check or records an outcome, and
\* a coroutine that waits for the lock stays where it is; the step that ends the cooldown
\* resets the counter
C28_StepOk ==
    \A c \in Coroutines :
        C28_Cooling(c) =>
            IF run'[c].pc = "cooldown"
            THEN /\ consecutive_failures' = consecutive_failures
                 /\ failure_lock'.owner = c
                 /\ \A q \in Coroutines :
                       /\ run'[q].checks = run[q].checks
                       /\ run'[q].success_count = run[q].success_count
                       /\ run'[q].fail_count = run[q].fail_count
                       /\ C28_Waiting(q) => run'[q] = run[q]
                       \* the job of a file ended: its coroutine queues for the lock
                       /\ (run'[q] # run[q] /\ run[q].pc = "extract" /\ run[q].caller = "file") =>
                             /\ run'[q].pc \in {"lock_reset", "lock_incr"}
                             /\ run'[q].all_items = run[q].all_items
                       \* whatever a coroutine did, outside a re-extraction, it now waits
                       /\ (run'[q] # run[q] /\ run'[q].pc # "exited"
                             /\ run[q].caller # "assembly") =>
                             /\ C28_Waiting(q)'
                             /\ \E k \in 1..Len(failure_lock'.waiters) :
                                   failure_lock'.waiters[k] = q
            ELSE /\ consecutive_failures' = 0
                 /\ \A q \in Coroutines \ {c} : run'[q] = run[q]

\* C28: the lock is held during the whole cooldown sleep; meanwhile no other batch run
\* completes a circuit_breaker_check or records the outcome of a job, and one whose
\* per-file job has ended waits until the cooldown is over and the counter is 0
C28_LockHeldThroughCooldown == [](C28_StateOk) /\ [][C28_StepOk]_vars

\* coroutine 1 sleeps its cooldown while the job of coroutine 2 has returned and waits
\* for the lock to reset the counter
C28_Witness ==
    /\ run[1].pc = "cooldown"
    /\ run[2].pc = "lock_reset"
    /\ failure_lock.owner = 1
    /\ failure_lock.waiters = <<2>>
    /\ consecutive_failures = MAX_CONSECUTIVE_FAILURES

-----------------------------------------------------------------------------
(* The frame of the restricted re-extraction, checked under Spec *)

\* the re-extraction is going on
C29_Reextracting(r) == r.caller = "assembly" /\ r.pc \in {"extract", "backoff"}

\* no step of the re-extraction changes the tallies or the counter
C29_StepOk ==
    (batches' = batches /\ C29_Reextracting(run[1])) =>
        /\ run'[1].success_count = run[1].success_count
        /\ run'[1].fail_count = run[1].fail_count
        /\ consecutive_failures' = consecutive_failures

\* when the batch is done the tallies count the files, and the counter the per-file jobs
\* that raised since the last one that returned
C29_StateOk ==
    run[1].pc = "done" =>
        /\ run[1].success_count + run[1].fail_count = Len(run[1].pdf_files)
        /\ run[1].success_count + run[1].fail_count = Len(run[1].attempted)
        /\ consecutive_failures = trailing_failures

\* C29: the restricted re-extraction, whether it returns an item, returns none or raises
\* after its last retry, leaves success_count, fail_count and consecutive_failures as they
\* were; at the end the tallies and the counter reflect the per-file jobs only
C29_ReextractionFrame == [](C29_StateOk) /\ [][C29_StepOk]_vars

\* a re-extraction raised a rate-limit error, which it does only at its last attempt, in a
\* batch whose three files had succeeded
C29_Witness ==
    /\ run[1].pc = "done"
    /\ run[1].folder = "order"
    /\ run[1].reextract = "raised"
    /\ run[1].reported = mRateLimit
    /\ run[1].success_count = 3
    /\ run[1].fail_count = 0
    /\ consecutive_failures = 0

-----------------------------------------------------------------------------
(* The merge applied twice, checked under SpecMerge *)

\* C30: the merge applied again, with the same re-extracted item, to the items it has
\* merged leaves every item as it is, for all original and re-extracted surface
\* treatments and BOM lists
C30_MergeIdempotent ==
    merge.again =>
        /\ Len(merge.twice) = Len(merge.merged)
        /\ \A k \in 1..Len(merge.merged) : merge.twice[k] = merge.merged[k]

\* the first merge replaced "None" by "Verzinkt" and two references by one; the second
\* changed nothing
C30_Witness ==
    /\ merge.again
    /\ merge.data # <<>>
    /\ merge.items[1].surface_treatment = vNone
    /\ merge.items[1].bom_part_numbers = << <<"B">>, <<"C">> >>
    /\ merge.merged[1].surface_treatment = vVerzinkt
    /\ merge.merged[1].bom_part_numbers = << <<"D">> >>
    /\ merge.twice = merge.merged

====
